---- MODULE Spec2Model ----
(***************************************************************************)
(* Model of AI_Concentration/autoencoder_model.py: a single-run pipeline   *)
(* that loads a table, trains an autoencoder, picks a threshold, reports   *)
(* and plots, scores a second dataset, and then runs the module-level      *)
(* export code at the end of the file.                                     *)
(*                                                                         *)
(* Numbers.  Reconstruction errors are non-negative reals; here they are   *)
(* integers 0..MaxErr on a grid.  The threshold is kept in hundredths of   *)
(* an error unit, so that numpy's linear interpolation is exact.  The      *)
(* network's weights are opaque: predict() yields any error array of the   *)
(* right length.  Array positions are 1-based in the model; the indices    *)
(* the program prints are 0-based and are kept 0-based.                    *)
(***************************************************************************)
EXTENDS Integers, Sequences, FiniteSets, TLC

\* ---------------------------------------------------------------- bounds
MaxRows == 4
MaxNewRows == 2
MaxState == 2
MaxErr == 1
MaxN == 6
MaxTopErr == 1
MaxDim == 3
MaxWidth == 3
MaxDepth == 3

\* ------------------------------------------------------- program constants
TopK == 5
DefaultPercentile == 95
DefaultDropout == 20
TestSizePct == 20
ValidationSplitPct == 20

IdCols == {"id", "card_id", "customer_id", "email", "address_city",
           "address_country", "name_on_card"}

StateCol == "address_state"

\* the numeric columns of the table that no preprocessing step names
OtherCols == {"other_numeric"}

ExpectedCols == IdCols \cup {StateCol}

TrainPlot == "reconstruction_error_distribution.png"

NewErrorsFile == "new_dataset_reconstruction_errors.npy"

NewPlot == "new_dataset_reconstruction_error_distribution.png"

ExportFile == "training_data.csv"

DefaultArgs ==
    [encoding_dims |-> <<16, 8, 4>>, dropout_rate |-> DefaultDropout,
     threshold_percentile |-> DefaultPercentile]

None == [none |-> TRUE]

\* ---------------------------------------------------------------- helpers
Min(a, b) == IF a < b THEN a ELSE b

Reverse(s) == [i \in 1..Len(s) |-> s[Len(s) + 1 - i]]

\* s[:-1]
AllButLast(s) == IF Len(s) = 0 THEN <<>> ELSE SubSeq(s, 1, Len(s) - 1)

\* s[-k:]
LastK(s, k) == IF Len(s) <= k THEN s ELSE SubSeq(s, Len(s) - k + 1, Len(s))

\* ceil(a / b) for a >= 0, b > 0
CeilDiv(a, b) == (a + b - 1) \div b

SeqsUpTo(S, lo, hi) == UNION {[1..n -> S] : n \in lo..hi}

\* ------------------------------------------------- build_autoencoder (14-37)
Dense(units, activation) == [kind |-> "Dense", units |-> units, activation |-> activation]

Dropout(rate) == [kind |-> "Dropout", units |-> 0, activation |-> "none"]

\* one hidden block: Dense(dim, relu), followed by Dropout when dropout_rate > 0
HiddenBlock(dim, dropout_rate) ==
    IF dropout_rate > 0
    THEN <<Dense(dim, "relu"), Dropout(dropout_rate)>>
    ELSE <<Dense(dim, "relu")>>

RECURSIVE HiddenStack(_, _)
HiddenStack(dims, dropout_rate) ==
    IF Len(dims) = 0 THEN <<>>
    ELSE HiddenBlock(Head(dims), dropout_rate) \o HiddenStack(Tail(dims), dropout_rate)

\* a plausible slip: the decoder mirrors every encoder width, bottleneck included
DecoderDimsWithBottleneck(encoding_dims) == Reverse(encoding_dims)

\* reversed(encoding_dims[:-1])
DecoderDims(encoding_dims) == Reverse(AllButLast(encoding_dims))

build_autoencoder(dim, encoding_dims, dropout_rate) ==
    [input_dim |-> dim,
     layers |-> HiddenStack(encoding_dims, dropout_rate)
                \o HiddenStack(DecoderDims(encoding_dims), dropout_rate)
                \o <<Dense(dim, "sigmoid")>>,
     trained |-> FALSE]

\* the widths of the Dense layers of a network, in order
DenseWidths(layers) ==
    LET F[i \in 0..Len(layers)] ==
            IF i = 0 THEN <<>>
            ELSE IF layers[i].kind = "Dense" THEN Append(F[i - 1], layers[i].units)
            ELSE F[i - 1]
    IN F[Len(layers)]

\* ------------------------------------------------------------ LabelEncoder
\* fit_transform gives each value its rank among the sorted distinct values
LabelEncode(values) == [v \in values |-> Cardinality({u \in values : u < v})]

\* a plausible alternative: the Scorer reuses the mapping fit on the training table
ScorerEncodingReused(trained_encoding, values) ==
    [v \in values |-> IF v \in DOMAIN trained_encoding THEN trained_encoding[v]
                      ELSE Cardinality(DOMAIN trained_encoding)]

\* lines 131-133: a fresh LabelEncoder is fit on the new dataset
ScorerEncoding(trained_encoding, values) == LabelEncode(values)

\* ------------------------------------------------------------ column drops
\* line 51-52: DataFrame.drop raises KeyError unless every label is present
LoaderDropTolerant(cols) == FALSE

LoaderDropRaises(cols) == ~(IdCols \subseteq cols)

\* line 55-56: data['address_state'] raises KeyError when the column is absent
LoaderEncodeRaises(cols) == StateCol \notin cols

\* lines 127-129: the drop happens only when all seven columns are present
ScorerDrop(cols) == IF IdCols \subseteq cols THEN cols \ IdCols ELSE cols

\* ------------------------------------------------------------ train_test_split
\* test_size=0.2: n_test = ceil(0.2 n), n_train = n - n_test
NTest(n) == CeilDiv(TestSizePct * n, 100)

\* the shuffle is fixed by random_state=42 but unknown: any test set of that size
Splits(n) == {t \in SUBSET (1..n) : Cardinality(t) = NTest(n)}

\* ------------------------------------------------------------ numpy helpers
\* the values of a in ascending order
RECURSIVE SortedValues(_)
SortedValues(a) ==
    IF Len(a) = 0 THEN <<>>
    ELSE LET m == CHOOSE i \in 1..Len(a) : \A j \in 1..Len(a) : a[i] <= a[j]
             rest == [k \in 1..(Len(a) - 1) |-> IF k < m THEN a[k] ELSE a[k + 1]]
         IN <<a[m]>> \o SortedValues(rest)

\* np.percentile(a, q), linear interpolation, in hundredths of an error unit
Percentile100(a, q) ==
    LET s == SortedValues(a)
        n == Len(a)
        pos == q * (n - 1)
        lo == pos \div 100
        hi == Min(lo + 1, n - 1)
    IN 100 * s[lo + 1] + (s[hi + 1] - s[lo + 1]) * (pos % 100)

\* errors > threshold, as the set of 0-based positions that are anomalous
Anomalies(errs, thr100) == {i - 1 : i \in {j \in 1..Len(errs) : 100 * errs[j] > thr100}}

\* np.argsort(a): every ascending order of the 0-based indices; the order among
\* equal values is whatever the unstable default sort produces
RECURSIVE ArgSortsOf(_, _)
ArgSortsOf(a, rem) ==
    IF rem = {} THEN {<<>>}
    ELSE UNION {{<<i - 1>> \o s : s \in ArgSortsOf(a, rem \ {i})} :
                i \in {k \in rem : \A j \in rem : a[k] <= a[j]}}

ArgSorts(a) == ArgSortsOf(a, 1..Len(a))

\* a plausible slip: the [::-1] is forgotten
TopSliceAscending(order) == LastK(order, TopK)

\* order[-5:][::-1]
TopSlice(order) == Reverse(LastK(order, TopK))

\* lines 94 and 154
TopAnomalies(errs) == {TopSlice(order) : order \in ArgSorts(errs)}

\* ------------------------------------------------------------ StandardScaler
\* what fit() stores: the fitted columns and the number of samples seen
FitScaler(cols, n) == [feature_names |-> cols, n_samples_seen |-> n]

\* transform raises ValueError on an empty matrix or on columns other than the fitted ones
TransformRaises(sc, cols, n) == n = 0 \/ cols # sc.feature_names

\* a plausible slip: the Scorer calls fit_transform
ScorerScalerRefit(sc, cols, n) == FitScaler(cols, n)

\* line 136: scaler.transform leaves the scaler as it is
ScorerScaler(sc, cols, n) == sc

\* ------------------------------------------------------------ resources, files
\* a plausible slip: read_sql_query on a missing table is taken to return nothing
ReadSqlNeverRaises(dbstate) == FALSE

\* line 45 / 259: the query raises unless the file holds the table
ReadSqlRaises(dbstate) == dbstate # "ok"

\* line 44 / 255: sqlite3.connect creates an empty database file when none exists
AfterConnect(dbstate) == IF dbstate = "missing" THEN "empty" ELSE dbstate

\* a plausible slip: the close() is forgotten
NotClosed(n) == n

\* conn.close() / plt.close()
Closed(n) == n - 1

\* a plausible slip: the threshold is taken from the training partition
ThresholdInputTrain(train, test) == train

\* line 201: autoencoder.predict(test_data)
ThresholdInput(train, test) == test

\* a plausible variant: the export at the end of the file is absent
ExportedNothing(fs) == fs

\* line 272: data.to_csv('training_data.csv')
Exported(fs) == fs \cup {ExportFile}

\* Keras splits the training matrix at floor((1 - validation_split) n) and raises
\* when either side is empty
FitRaises(n) ==
    LET split_at == ((100 - ValidationSplitPct) * n) \div 100
    IN split_at = 0 \/ split_at = n

\* ------------------------------------------------------------ inputs
\* a table or CSV: its columns, its rows, the rows holding NaN or inf, and the
\* distinct address_state values of the remaining rows
Datasets(maxrows) ==
    {d \in [cols : {OtherCols \cup c : c \in SUBSET ExpectedCols},
            nrows : 0..maxrows, nbad : 0..maxrows, states : SUBSET (1..MaxState)] :
        /\ d.nbad <= d.nrows
        /\ Cardinality(d.states) <= d.nrows - d.nbad
        /\ (StateCol \in d.cols /\ d.nrows - d.nbad > 0) <=> d.states # {}}

\* dropna, twice (lines 49-50 and 125-126)
CleanRows(d) == d.nrows - d.nbad

ErrorArrays(n) == [1..n -> 0..MaxErr]

\* ------------------------------------------------------------ state
VARIABLES pc, raised, failed_at, db, csv_exists, args, open_conns, open_figs, files,
          table_cols, train_data, test_data, scaler, loader_encoding,
          input_dim, autoencoder,
          error_rows, reconstruction_errors, threshold, num_anomalies, top_anomalies,
          new_scaler_input, new_encoding, new_errors, new_anomalies, new_top

ctrl == <<pc, raised, failed_at>>

env == <<db, csv_exists, args>>

res == <<open_conns, open_figs, files>>

loaded == <<table_cols, train_data, test_data, scaler, loader_encoding>>

net == <<input_dim, autoencoder>>

evald == <<error_rows, reconstruction_errors, threshold, num_anomalies, top_anomalies>>

scored == <<new_scaler_input, new_encoding, new_errors, new_anomalies, new_top>>

vars == <<ctrl, env, res, loaded, net, evald, scored>>

\* everything but the position and the inputs, as it is before anything ran
Blank ==
    /\ raised = "none" /\ failed_at = "none"
    /\ open_conns = 0 /\ open_figs = 0 /\ files = {}
    /\ table_cols = {} /\ train_data = {} /\ test_data = {}
    /\ scaler = None /\ loader_encoding = <<>>
    /\ autoencoder = None
    /\ error_rows = {} /\ num_anomalies = 0 /\ top_anomalies = <<>>
    /\ new_scaler_input = {} /\ new_encoding = <<>>
    /\ new_anomalies = {} /\ new_top = <<>>

Init ==
    /\ pc = "load"
    /\ db \in {"missing", "notable", "ok"}
    /\ csv_exists \in BOOLEAN
    /\ args = DefaultArgs
    /\ input_dim = 0
    /\ reconstruction_errors = <<>> /\ threshold = -1 /\ new_errors = <<>>
    /\ Blank

\* an uncaught exception ends the process: nothing after the raising line runs
Crash(at, exc) == pc' = "crashed" /\ failed_at' = at /\ raised' = exc

\* ------------------------------------------------------------ the pipeline
\* lines 40-62
load_and_preprocess_data ==
    /\ pc = "load"
    /\ db' = AfterConnect(db)
    /\ IF ReadSqlRaises(db')
       THEN /\ Crash("load", "DatabaseError")
            /\ open_conns' = open_conns + 1
            /\ UNCHANGED loaded
       ELSE \E t \in Datasets(MaxRows) :
            LET n == CleanRows(t)
                kept == t.cols \ IdCols
            IN /\ open_conns' = Closed(open_conns + 1)
               /\ table_cols' = t.cols
               /\ IF LoaderDropRaises(t.cols) \/ LoaderEncodeRaises(kept)
                  THEN /\ Crash("load", "KeyError")
                       /\ UNCHANGED <<train_data, test_data, scaler, loader_encoding>>
                  ELSE IF n = 0 \/ NTest(n) = n
                  THEN /\ Crash("load", "ValueError")
                       /\ UNCHANGED <<train_data, test_data, scaler, loader_encoding>>
                  ELSE \E test \in Splits(n) :
                       /\ test_data' = test
                       /\ train_data' = (1..n) \ test
                       /\ scaler' = FitScaler(kept, n)
                       /\ loader_encoding' = LabelEncode(t.states)
                       /\ pc' = "build"
                       /\ UNCHANGED <<raised, failed_at>>
    /\ UNCHANGED <<csv_exists, args, open_figs, files, net, evald, scored>>

\* lines 178-185 (and build_autoencoder applied on its own, from "build_only")
main_build ==
    /\ pc \in {"build", "build_only"}
    /\ input_dim' = IF pc = "build" THEN Cardinality(scaler.feature_names) ELSE input_dim
    /\ autoencoder' = build_autoencoder(input_dim', args.encoding_dims, args.dropout_rate)
    /\ pc' = IF pc = "build" THEN "train" ELSE "built"
    /\ UNCHANGED <<raised, failed_at, env, res, loaded, evald, scored>>

\* lines 188-198
main_fit ==
    /\ pc = "train"
    /\ IF FitRaises(Cardinality(train_data))
       THEN Crash("train", "ValueError") /\ UNCHANGED autoencoder
       ELSE /\ autoencoder' = [autoencoder EXCEPT !.trained = TRUE]
            /\ pc' = "threshold"
            /\ UNCHANGED <<raised, failed_at>>
    /\ UNCHANGED <<input_dim, env, res, loaded, evald, scored>>

\* lines 201-206
main_threshold ==
    /\ pc = "threshold"
    /\ LET rows == ThresholdInput(train_data, test_data)
       IN \E errs \in ErrorArrays(Cardinality(rows)) :
            /\ error_rows' = rows
            /\ reconstruction_errors' = errs
            /\ threshold' = Percentile100(errs, args.threshold_percentile)
    /\ pc' = "evaluate"
    /\ UNCHANGED <<raised, failed_at, env, res, loaded, net, num_anomalies,
                   top_anomalies, scored>>

\* lines 65-96 (from "top_eval": the Evaluator applied to an arbitrary array)
evaluate_model_performance ==
    /\ pc \in {"evaluate", "top_eval"}
    /\ IF Len(reconstruction_errors) = 0
       THEN Crash("evaluate", "ValueError") /\ UNCHANGED <<num_anomalies, top_anomalies>>
       ELSE /\ num_anomalies' = Cardinality(Anomalies(reconstruction_errors, threshold))
            /\ top_anomalies' \in TopAnomalies(reconstruction_errors)
            /\ pc' = IF pc = "evaluate" THEN "plot" ELSE "top_done"
            /\ UNCHANGED <<raised, failed_at>>
    /\ UNCHANGED <<env, res, loaded, net, error_rows, reconstruction_errors, threshold,
                   scored>>

\* lines 99-111
plot_reconstruction_errors ==
    /\ pc = "plot"
    /\ \E save_ok \in BOOLEAN :
         IF save_ok
         THEN /\ files' = files \cup {TrainPlot}
              /\ open_figs' = Closed(open_figs + 1)
              /\ pc' = "score"
              /\ UNCHANGED <<raised, failed_at>>
         ELSE /\ Crash("plot", "OSError")
              /\ open_figs' = open_figs + 1
              /\ UNCHANGED files
    /\ UNCHANGED <<env, open_conns, loaded, net, evald, scored>>

\* lines 114-170
detect_and_evaluate_fraud ==
    /\ pc = "score"
    /\ IF ~csv_exists
       THEN /\ Crash("score", "FileNotFoundError")
            /\ UNCHANGED <<scaler, open_figs, files, scored>>
       ELSE \E d \in Datasets(MaxNewRows) :
            LET cols == ScorerDrop(d.cols)
                n == CleanRows(d)
            IN /\ new_scaler_input' = cols
               /\ new_encoding' = IF StateCol \in cols
                                  THEN ScorerEncoding(loader_encoding, d.states)
                                  ELSE <<>>
               /\ scaler' = ScorerScaler(scaler, cols, n)
               /\ IF TransformRaises(scaler, cols, n)
                  THEN /\ Crash("score", "ValueError")
                       /\ UNCHANGED <<open_figs, files, new_errors, new_anomalies, new_top>>
                  ELSE \E errs \in ErrorArrays(n) :
                       /\ new_errors' = errs
                       /\ new_anomalies' = Anomalies(errs, threshold)
                       /\ new_top' \in TopAnomalies(errs)
                       /\ \E outcome \in {"ok", "save_failed", "savefig_failed"} :
                            CASE outcome = "ok" ->
                                   /\ files' = files \cup {NewErrorsFile, NewPlot}
                                   /\ open_figs' = Closed(open_figs + 1)
                                   /\ pc' = "export"
                                   /\ UNCHANGED <<raised, failed_at>>
                              [] outcome = "save_failed" ->
                                   /\ Crash("score", "OSError")
                                   /\ UNCHANGED <<open_figs, files>>
                              [] outcome = "savefig_failed" ->
                                   /\ Crash("score", "OSError")
                                   /\ files' = files \cup {NewErrorsFile}
                                   /\ open_figs' = open_figs + 1
    /\ UNCHANGED <<env, open_conns, table_cols, train_data, test_data, loader_encoding,
                   net, evald>>

\* lines 152-156 on their own: the Scorer's top-anomaly report for an arbitrary array
scorer_top_anomalies ==
    /\ pc = "top_score"
    /\ new_top' \in TopAnomalies(new_errors)
    /\ pc' = "top_done"
    /\ UNCHANGED <<raised, failed_at, env, res, loaded, net, evald, new_scaler_input,
                   new_encoding, new_errors, new_anomalies>>

\* lines 249-272: the code at the end of the file, run after main returns
module_level_export ==
    /\ pc = "export"
    /\ db' = AfterConnect(db)
    /\ IF ReadSqlRaises(db')
       THEN /\ Crash("export", "DatabaseError")
            /\ open_conns' = open_conns + 1
            /\ UNCHANGED files
       ELSE /\ open_conns' = Closed(open_conns + 1)
            /\ \E write_ok \in BOOLEAN :
                 IF write_ok
                 THEN /\ files' = Exported(files)
                      /\ pc' = "exit"
                      /\ UNCHANGED <<raised, failed_at>>
                 ELSE Crash("export", "OSError") /\ UNCHANGED files
    /\ UNCHANGED <<csv_exists, args, open_figs, loaded, net, evald, scored>>

Next ==
    \/ load_and_preprocess_data
    \/ main_build
    \/ main_fit
    \/ main_threshold
    \/ evaluate_model_performance
    \/ plot_reconstruction_errors
    \/ detect_and_evaluate_fraud
    \/ module_level_export

Spec == Init /\ [][Next]_vars

\* ------------------------------------------- build_autoencoder on its own
EncodingDimChoices == SeqsUpTo(1..MaxWidth, 1, MaxDepth)

InitBuild ==
    /\ pc = "build_only"
    /\ db = "ok" /\ csv_exists = TRUE
    /\ args \in {DefaultArgs} \cup
                [encoding_dims : EncodingDimChoices, dropout_rate : {0, DefaultDropout},
                 threshold_percentile : {DefaultPercentile}]
    /\ input_dim \in 1..MaxDim
    /\ reconstruction_errors = <<>> /\ threshold = -1 /\ new_errors = <<>>
    /\ Blank

NextBuild == main_build

SpecBuild == InitBuild /\ [][NextBuild]_vars

\* ------------------------------------------- the top-anomaly report on its own
\* the example of the specification, in hundredths
ExampleErrors == <<10, 90, 30, 5, 70>>

TopInputs == SeqsUpTo(0..MaxTopErr, 0, MaxN) \cup {ExampleErrors}

InitTop ==
    /\ pc \in {"top_eval", "top_score"}
    /\ db = "ok" /\ csv_exists = TRUE /\ args = DefaultArgs /\ input_dim = 0
    /\ \E a \in TopInputs :
         /\ reconstruction_errors = IF pc = "top_eval" THEN a ELSE <<>>
         /\ new_errors = IF pc = "top_score" THEN a ELSE <<>>
         /\ threshold = IF pc = "top_eval" /\ Len(a) > 0
                        THEN Percentile100(a, args.threshold_percentile) ELSE -1
    /\ Blank

NextTop ==
    \/ evaluate_model_performance
    \/ scorer_top_anomalies

SpecTop == InitTop /\ [][NextTop]_vars

\* ------------------------------------------------------------ properties
AfterThreshold == threshold # -1

ThreeArtifacts == {TrainPlot, NewErrorsFile, NewPlot}

\* C1 as stated: the array passed to the percentile computation holds the
\* reconstruction errors of the training partition returned by the Loader.
C1_ThresholdFromTrainPartition ==
    AfterThreshold =>
        /\ error_rows = train_data
        /\ Len(reconstruction_errors) = Cardinality(train_data)

\* C1 amended: the threshold is the chosen percentile of the reconstruction errors
\* of the held-out test partition returned by the Loader, and it keeps that value
\* for the rest of the run.
C1_ThresholdFromTestPartition ==
    AfterThreshold =>
        /\ error_rows = test_data
        /\ Len(reconstruction_errors) = Cardinality(test_data)
        /\ threshold = Percentile100(reconstruction_errors, args.threshold_percentile)

C1_Witness ==
    /\ pc = "exit"
    /\ error_rows = test_data
    /\ Cardinality(train_data) > Cardinality(test_data)
    /\ new_anomalies # {}

\* C2: whatever subset of the seven identifier columns the new dataset holds, the
\* matrix the Scorer hands to the scaler contains none of them.
C2_NoIdentifierReachesScaler ==
    new_scaler_input # {} => new_scaler_input \cap IdCols = {}

\* C3 as stated: a table lacking an identifier column or address_state does not
\* make the Loader raise; the drop or encode step is skipped.
C3_LoaderToleratesMissingColumn ==
    (table_cols # {} /\ ~(ExpectedCols \subseteq table_cols)) =>
        ~(failed_at = "load" /\ raised = "KeyError")

\* C3 amended: the Loader has no column-existence checks; when an identifier column
\* or address_state is absent from the table it raises KeyError and returns neither
\* a split nor a scaler.
C3_LoaderRaisesOnMissingColumn ==
    (table_cols # {} /\ ~(ExpectedCols \subseteq table_cols)) =>
        /\ pc = "crashed" /\ failed_at = "load" /\ raised = "KeyError"
        /\ scaler = None /\ train_data = {} /\ test_data = {}
        /\ autoencoder = None

C3_Witness ==
    /\ raised = "KeyError"
    /\ "email" \notin table_cols
    /\ (ExpectedCols \ {"email"}) \subseteq table_cols

\* C4 as stated: a complete run writes exactly the two histograms and the error
\* array, and nothing else.
C4_ExactlyThreeFiles == pc = "exit" => files = ThreeArtifacts

\* C4 amended: a complete run writes exactly four files: the two histograms, the
\* error array, and training_data.csv, written by the code at the end of the file
\* after main returns; main itself writes only the first three.
C4_ExactlyFourFiles ==
    /\ pc = "exit" => files = ThreeArtifacts \cup {ExportFile}
    /\ pc = "export" => files = ThreeArtifacts
    /\ files \subseteq ThreeArtifacts \cup {ExportFile}

C4_Witness == pc = "exit" /\ ExportFile \in files /\ ThreeArtifacts \subseteq files

\* C5: the Scorer changes neither the fitted scaler, nor the threshold, nor the
\* model, and it classifies every record of the new dataset against the threshold
\* main computed before calling it.
C5_ScorerLeavesModelState ==
    [][pc = "score" =>
         /\ scaler' = scaler
         /\ threshold' = threshold
         /\ autoencoder' = autoencoder
         /\ \A i \in 1..Len(new_errors') :
              (i - 1 \in new_anomalies') <=> (100 * new_errors'[i] > threshold)]_vars

C5_Witness ==
    /\ pc = "exit"
    /\ new_anomalies # {}
    /\ Cardinality(new_anomalies) < Len(new_errors)
    /\ scaler.n_samples_seen # Len(new_errors)

\* the reported indices top of the error array a
TopReportOK(a, top) ==
    LET reported == {top[k] : k \in 1..Len(top)}
    IN /\ Len(top) = Min(5, Len(a))
       /\ reported \subseteq 0..(Len(a) - 1)
       /\ Cardinality(reported) = Len(top)
       /\ \A i \in reported : \A j \in (0..(Len(a) - 1)) \ reported : a[j + 1] <= a[i + 1]
       /\ \A k \in 1..(Len(top) - 1) : a[top[k] + 1] >= a[top[k + 1] + 1]
       /\ a = ExampleErrors => SubSeq(top, 1, 3) = <<1, 4, 2>>

\* C6: the Evaluator and the Scorer report min(5, N) distinct indices holding the
\* largest errors, in non-increasing order of error; [0.1, 0.9, 0.3, 0.05, 0.7]
\* gives [1, 4, 2] first.
C6_TopAnomalies ==
    pc = "top_done" =>
        /\ TopReportOK(reconstruction_errors, top_anomalies)
        /\ TopReportOK(new_errors, new_top)

C6_Witness ==
    /\ pc = "top_done"
    /\ Len(reconstruction_errors) > 5
    /\ Len(top_anomalies) = 5
    /\ \E i, j \in 1..Len(reconstruction_errors) :
         reconstruction_errors[i] < reconstruction_errors[j]

\* C7: the dense layers have widths w1..wn, then w(n-1)..w1, then D: 2n dense
\* layers, the last as wide as the input, also when n = 1.
C7_MirroredWidths ==
    pc = "built" =>
        LET dims == args.encoding_dims
            n == Len(dims)
            w == DenseWidths(autoencoder.layers)
        IN /\ Len(w) = 2 * n
           /\ \A i \in 1..n : w[i] = dims[i]
           /\ \A i \in 1..(n - 1) : w[n + i] = dims[n - i]
           /\ w[2 * n] = input_dim
           /\ autoencoder.input_dim = input_dim

C7_Witness ==
    /\ pc = "built"
    /\ Len(args.encoding_dims) = 1
    /\ Len(DenseWidths(autoencoder.layers)) = 2
    /\ args.encoding_dims[1] # input_dim

\* C8: a missing database file or table ends the run in the Loader, before any
\* model is built and before any output file exists; a missing CSV ends it in the
\* Scorer before the error array or the new histogram is written; nothing after the
\* failing stage runs, and the read is attempted once.
C8_MissingSourceStopsRun ==
    /\ db # "ok" =>
         /\ pc \in {"load", "crashed"}
         /\ autoencoder = None /\ files = {} /\ open_conns <= 1
         /\ pc = "crashed" => (failed_at = "load" /\ raised = "DatabaseError")
    /\ ~csv_exists =>
         /\ pc \notin {"export", "exit"}
         /\ files \cap {NewErrorsFile, NewPlot, ExportFile} = {}
         /\ new_scaler_input = {} /\ new_errors = <<>>
         /\ failed_at = "score" => raised = "FileNotFoundError"
    /\ failed_at = "load" =>
         (autoencoder = None /\ ~AfterThreshold /\ files = {} /\ new_scaler_input = {})
    /\ failed_at = "score" => (ExportFile \notin files /\ open_conns = 0)

C8_Witness ==
    /\ pc = "crashed" /\ failed_at = "score" /\ raised = "FileNotFoundError"
    /\ ~csv_exists
    /\ files = {TrainPlot}

\* C9 as stated: on every path out of every operation, failing ones included, no
\* connection and no figure is left open.
C9_ClosedOnEveryPath == open_conns = 0 /\ open_figs = 0

\* C9 amended: a connection or figure is closed whenever the operation that opened
\* it completes without raising, so a run that reaches its end leaves none open;
\* there is no cleanup on failure: when the query raises the connection stays open,
\* and when savefig raises the figure stays open.
C9_ClosedUnlessRaised ==
    /\ raised = "none" => (open_conns = 0 /\ open_figs = 0)
    /\ raised = "DatabaseError" => (open_conns = 1 /\ open_figs = 0)
    /\ (raised = "OSError" /\ failed_at = "plot") => (open_conns = 0 /\ open_figs = 1)
    /\ open_conns <= 1 /\ open_figs <= 1

C9_Witness ==
    /\ pc = "exit"
    /\ open_conns = 0 /\ open_figs = 0
    /\ {TrainPlot, NewPlot, ExportFile} \subseteq files

\* rank of v among the distinct values of a column
Rank(v, values) == Cardinality({u \in values : u < v})

\* C10: the Scorer encodes address_state with an encoder fit on the new dataset
\* alone; a value whose rank differs between the two datasets gets different codes
\* from the Loader and the Scorer, and the Scorer still completes without raising.
C10_IndependentEncodings ==
    pc \in {"export", "exit"} =>
        /\ raised = "none"
        /\ \A v \in DOMAIN new_encoding : new_encoding[v] = Rank(v, DOMAIN new_encoding)
        /\ \A v \in DOMAIN new_encoding \cap DOMAIN loader_encoding :
             Rank(v, DOMAIN new_encoding) # Rank(v, DOMAIN loader_encoding)
                 => new_encoding[v] # loader_encoding[v]

C10_Witness ==
    /\ pc = "exit" /\ raised = "none"
    /\ NewErrorsFile \in files
    /\ \E v \in DOMAIN new_encoding \cap DOMAIN loader_encoding :
         new_encoding[v] # loader_encoding[v]

====
